---- MODULE Spec2Model ----
(***************************************************************************)
(* Pass conflict detection, validation, slot search and schedule           *)
(* optimization of the ASC scheduler                                       *)
(* (backend/app/services/schedule_validator.py), and the pass generation   *)
(* of backend/app/services/pass_generator.py as far as it writes the       *)
(* passschedule table.                                                     *)
(*                                                                         *)
(* Time is counted in whole minutes from an arbitrary origin.  The         *)
(* passschedule table is the variable passes, the satellite table is       *)
(* satellites and now is the clock.  request is the call being served and  *)
(* response what the service returned for it.  A database session handed   *)
(* to a service function is a record db (see Session below).  sweep holds  *)
(* the locals of a running optimize_schedule call, stats those of a        *)
(* running get_schedule_statistics call.                                   *)
(***************************************************************************)
EXTENDS Integers, Sequences, FiniteSets, TLC

VARIABLES passes, satellites, now, request, response, sweep, stats

vars == <<passes, satellites, now, request, response, sweep, stats>>

(***************************************************************************)
(* Bounds of the model.                                                    *)
(***************************************************************************)
\* largest number of rows of the passschedule table
MaxPasses == 2
\* largest max_search_iterations a slot search is called with
MaxSteps == 3
\* largest search_hours_ahead a slot search is called with
MaxHours == 2

\* ground stations, start times and durations of the stored rows
Stations == {"GS1", "GS2"}
StoredStarts == {0, 30}
StoredDurations == {10, 30}
\* norad ids of the satellite table, and one id that is not in it
KnownSatellites == {1}
UnknownSatellite == 2

(***************************************************************************)
(* Program constants.                                                      *)
(***************************************************************************)
\* check_temporal_conflicts(..., conflict_window_minutes: int = 10)
DefaultConflictWindow == 10
\* find_next_available_slot: current_time += timedelta(minutes=30)
SlotStepMinutes == 30
\* timedelta(hours=search_hours_ahead), in minutes
MinutesPerHour == 60

\* ConflictType
TEMPORAL_OVERLAP == "temporal_overlap"
GROUND_STATION_CONFLICT == "ground_station_conflict"
SATELLITE_ACCESS_CONFLICT == "satellite_access_conflict"
MINIMUM_SEPARATION_VIOLATION == "minimum_separation_violation"

\* conflicting_pass_id of a conflict that references no row (None)
NoPassId == 0
\* find_next_available_slot returning None
NoSlot == -1

(***************************************************************************)
(* Python values whose type matters: an int, or a str holding digits.      *)
(***************************************************************************)
IntArg(n) == [type |-> "int", val |-> n]
StrArg(n) == [type |-> "str", val |-> n]

\* os.getenv always returns a str: the default "5", or the text of the
\* environment variable
DEFAULT_PASSES_PER_SATELLITE_number == IntArg(5)

DEFAULT_PASSES_PER_SATELLITE == StrArg(5)

(***************************************************************************)
(* class ScheduleConflict.  description is kept as a tag naming the message;*)
(* suggested_time is never set by the service and is left out.             *)
(***************************************************************************)
ScheduleConflict(conflict_type, description, conflicting_pass_id, severity) ==
    [conflict_type |-> conflict_type,
     description |-> description,
     conflicting_pass_id |-> conflicting_pass_id,
     severity |-> severity]

(***************************************************************************)
(* A database session: what its queries return.  scan is the order in      *)
(* which the passschedule rows come back from a query that has no ORDER BY *)
(* (unspecified by the database), fault names the query that raises.       *)
(***************************************************************************)
Faults == {"none", "satellite_query", "pass_query"}

\* all the orders in which the rows of a table can be returned
ScanOrders(rows) ==
    {s \in [1..Cardinality(rows) -> rows] :
        \A i, j \in 1..Cardinality(rows) : i # j => s[i] # s[j]}

\* A session with objects already loaded: identity maps a pass_id to the
\* object the session holds for that row.  A query is evaluated on the rows
\* of the table and returns, for a row the session already holds, the
\* session's object with the attributes it has there (autoflush=False).
SessionHolding(satellite_rows, scan, fault, identity) ==
    [satellites |-> satellite_rows, scan |-> scan, fault |-> fault,
     identity |-> identity]

\* the session of a new request holds no object
Session(satellite_rows, scan, fault) ==
    SessionHolding(satellite_rows, scan, fault, <<>>)

Loaded(db, rows) ==
    [i \in 1..Len(rows) |->
        IF rows[i].pass_id \in DOMAIN db.identity
        THEN db.identity[rows[i].pass_id]
        ELSE rows[i]]

Abs(x) == IF x < 0 THEN -x ELSE x

(***************************************************************************)
(* check_temporal_conflicts                                                *)
(***************************************************************************)
\* PassSchedule.start_time < window_end, PassSchedule.end_time > window_start
InWindowClosedStart(p, window_start, window_end) ==
    /\ p.start_time < window_end
    /\ p.end_time >= window_start

InWindow(p, window_start, window_end) ==
    /\ p.start_time < window_end
    /\ p.end_time > window_start

\* db.query(PassSchedule).filter(and_(...)).all(), with the window widened by
\* the buffer on both sides
overlapping_passes_unbuffered(new_pass_start, new_pass_end, buffer, db) ==
    Loaded(db, SelectSeq(db.scan,
                         LAMBDA p : InWindow(p, new_pass_start, new_pass_end)))

overlapping_passes(new_pass_start, new_pass_end, buffer, db) ==
    LET window_start == new_pass_start - buffer
        window_end == new_pass_end + buffer
    IN  Loaded(db, SelectSeq(db.scan,
                             LAMBDA p : InWindow(p, window_start, window_end)))

\* if existing_pass.ground_station == new_ground_station: severity="high"
GroundStationConflictsOtherStation(existing_pass, new_ground_station) ==
    IF existing_pass.ground_station # new_ground_station
    THEN <<ScheduleConflict(GROUND_STATION_CONFLICT, "station_already_scheduled",
                            existing_pass.pass_id, "high")>>
    ELSE <<>>

GroundStationConflicts(existing_pass, new_ground_station) ==
    IF existing_pass.ground_station = new_ground_station
    THEN <<ScheduleConflict(GROUND_STATION_CONFLICT, "station_already_scheduled",
                            existing_pass.pass_id, "high")>>
    ELSE <<>>

\* if existing_pass.satellite_norad_id == new_satellite_norad_id: pass
SatelliteAccessConflictsReported(existing_pass, new_satellite_norad_id) ==
    IF existing_pass.satellite_norad_id = new_satellite_norad_id
    THEN <<ScheduleConflict(SATELLITE_ACCESS_CONFLICT, "satellite_already_scheduled",
                            existing_pass.pass_id, "high")>>
    ELSE <<>>

SatelliteAccessConflicts(existing_pass, new_satellite_norad_id) ==
    <<>>

\* time_separation = abs(existing.start - new.start) in minutes;
\* if time_separation < conflict_window_minutes: severity="medium"
SeparationViolations(existing_pass, new_pass_start, buffer) ==
    IF Abs(existing_pass.start_time - new_pass_start) < buffer
    THEN <<ScheduleConflict(MINIMUM_SEPARATION_VIOLATION, "separation_too_small",
                            existing_pass.pass_id, "medium")>>
    ELSE <<>>

\* the body of `for existing_pass in overlapping_passes`, from row i on
RECURSIVE ConflictsOfRows(_, _, _, _, _, _)
ConflictsOfRows(rows, i, new_pass_start, new_ground_station, new_satellite_norad_id, buffer) ==
    IF i > Len(rows)
    THEN <<>>
    ELSE GroundStationConflicts(rows[i], new_ground_station)
         \o SatelliteAccessConflicts(rows[i], new_satellite_norad_id)
         \o SeparationViolations(rows[i], new_pass_start, buffer)
         \o ConflictsOfRows(rows, i + 1, new_pass_start, new_ground_station,
                            new_satellite_norad_id, buffer)

\* What a try block does: it raises, or it returns a value.  pass_queries
\* counts the queries it issued against the passschedule table.
Raise(pass_queries) == [raised |-> TRUE, value |-> <<>>, pass_queries |-> pass_queries]

Return(value, pass_queries) == [raised |-> FALSE, value |-> value, pass_queries |-> pass_queries]

\* The try block.  timedelta(minutes=x) raises TypeError unless x is a
\* number, before any query; the query raises when the database fails.
check_temporal_conflicts_try(new_pass_start, new_pass_end, new_ground_station, new_satellite_norad_id, db, conflict_window_minutes) ==
    IF conflict_window_minutes.type # "int"
    THEN Raise(0)
    ELSE IF db.fault = "pass_query"
    THEN Raise(1)
    ELSE Return(ConflictsOfRows(
                    overlapping_passes(new_pass_start, new_pass_end,
                                       conflict_window_minutes.val, db),
                    1, new_pass_start, new_ground_station,
                    new_satellite_norad_id, conflict_window_minutes.val), 1)

\* except Exception as e: return [ScheduleConflict(TEMPORAL_OVERLAP, ...)]
check_temporal_conflicts_reraise(outcome) == outcome

check_temporal_conflicts_except(outcome) ==
    IF outcome.raised
    THEN Return(<<ScheduleConflict(TEMPORAL_OVERLAP, "error_checking_conflicts",
                                   NoPassId, "high")>>, outcome.pass_queries)
    ELSE outcome

\* the call with its outcome, and the list it returns
check_temporal_conflicts_call(new_pass_start, new_pass_end, new_ground_station, new_satellite_norad_id, db, conflict_window_minutes) ==
    check_temporal_conflicts_except(
        check_temporal_conflicts_try(new_pass_start, new_pass_end,
                                     new_ground_station, new_satellite_norad_id,
                                     db, conflict_window_minutes))

check_temporal_conflicts(new_pass_start, new_pass_end, new_ground_station, new_satellite_norad_id, db, conflict_window_minutes) ==
    check_temporal_conflicts_call(new_pass_start, new_pass_end,
                                  new_ground_station, new_satellite_norad_id,
                                  db, conflict_window_minutes).value

(***************************************************************************)
(* find_next_available_slot                                                *)
(***************************************************************************)
\* while current_time < search_end and iteration < max_search_iterations
ContinueSearchOneMore(current_time, search_end, iteration, max_search_iterations) ==
    /\ current_time <= search_end
    /\ iteration <= max_search_iterations

ContinueSearch(current_time, search_end, iteration, max_search_iterations) ==
    /\ current_time < search_end
    /\ iteration < max_search_iterations

\* if not conflicts
SlotIsFree(conflicts) == conflicts = <<>>

\* The while loop.  examined collects, in order, the times the detector was
\* run on; slot is the value returned.
RECURSIVE SlotSearchLoop(_, _, _, _, _, _, _, _, _)
SlotSearchLoop(current_time, iteration, examined, search_end, max_search_iterations, requested_duration_minutes, ground_station, satellite_norad_id, db) ==
    IF ContinueSearch(current_time, search_end, iteration, max_search_iterations)
    THEN LET proposed_end == current_time + requested_duration_minutes
             conflicts == check_temporal_conflicts(
                              current_time, proposed_end, ground_station,
                              satellite_norad_id, db,
                              DEFAULT_PASSES_PER_SATELLITE)
         IN  IF SlotIsFree(conflicts)
             THEN [slot |-> current_time,
                   examined |-> Append(examined, current_time)]
             ELSE SlotSearchLoop(current_time + SlotStepMinutes, iteration + 1,
                                 Append(examined, current_time), search_end,
                                 max_search_iterations,
                                 requested_duration_minutes, ground_station,
                                 satellite_norad_id, db)
    ELSE [slot |-> NoSlot, examined |-> examined]

find_next_available_slot(requested_start, requested_duration_minutes, ground_station, satellite_norad_id, db, search_hours_ahead, max_search_iterations) ==
    SlotSearchLoop(requested_start, 0, <<>>,
                   requested_start + search_hours_ahead * MinutesPerHour,
                   max_search_iterations, requested_duration_minutes,
                   ground_station, satellite_norad_id, db)

(***************************************************************************)
(* validate_schedule_creation                                              *)
(***************************************************************************)
\* [c for c in conflicts if c.severity == "high"]
high_severity_conflicts_any(conflicts) == conflicts

high_severity_conflicts(conflicts) ==
    SelectSeq(conflicts, LAMBDA c : c.severity = "high")

Rejected(conflict_type, description) ==
    [is_valid |-> FALSE,
     conflicts |-> <<ScheduleConflict(conflict_type, description, NoPassId, "high")>>]

\* if start_time >= end_time
WindowMalformedStrict(start_time, end_time) == start_time > end_time

WindowMalformed(start_time, end_time) == start_time >= end_time

\* if start_time <= datetime.now(timezone.utc)
NotInFutureStrict(start_time, clock) == start_time < clock

NotInFuture(start_time, clock) == start_time <= clock

\* The try block: the satellite lookup, the two checks of the window and the
\* conflict detection.
validate_schedule_creation_try(satellite_norad_id, ground_station, start_time, end_time, db, clock) ==
    IF db.fault = "satellite_query"
    THEN Raise(0)
    ELSE IF satellite_norad_id \notin db.satellites
    THEN Return(Rejected(SATELLITE_ACCESS_CONFLICT, "satellite_not_found"), 0)
    ELSE IF WindowMalformed(start_time, end_time)
    THEN Return(Rejected(TEMPORAL_OVERLAP, "start_not_before_end"), 0)
    ELSE IF NotInFuture(start_time, clock)
    THEN Return(Rejected(TEMPORAL_OVERLAP, "start_not_in_future"), 0)
    ELSE LET detection == check_temporal_conflicts_call(
                              start_time, end_time, ground_station,
                              satellite_norad_id, db,
                              IntArg(DefaultConflictWindow))
             conflicts == detection.value
         IN  IF detection.raised
             THEN Raise(detection.pass_queries)
             ELSE Return([is_valid |-> Len(high_severity_conflicts(conflicts)) = 0,
                          conflicts |-> conflicts], detection.pass_queries)

\* except Exception as e: return False, [ScheduleConflict(TEMPORAL_OVERLAP, ...)]
validate_schedule_creation_except(outcome) ==
    IF outcome.raised
    THEN Return(Rejected(TEMPORAL_OVERLAP, "validation_error"), outcome.pass_queries)
    ELSE outcome

\* the call with its outcome, and the pair it returns
validate_schedule_creation_call(satellite_norad_id, ground_station, start_time, end_time, db, clock) ==
    validate_schedule_creation_except(
        validate_schedule_creation_try(satellite_norad_id, ground_station,
                                       start_time, end_time, db, clock))

validate_schedule_creation(satellite_norad_id, ground_station, start_time, end_time, db, clock) ==
    validate_schedule_creation_call(satellite_norad_id, ground_station,
                                    start_time, end_time, db, clock).value

(***************************************************************************)
(* optimize_schedule                                                       *)
(***************************************************************************)
\* search_hours_ahead: int = 168, max_search_iterations: int = 50
DefaultSearchHours == 168

DefaultMaxIterations == 50

\* db.query(PassSchedule).order_by(PassSchedule.start_time).all(): the rows
\* by ascending start_time; the order of rows with equal start_time is the
\* database's choice
LoadOrders(rows) ==
    {s \in ScanOrders(rows) :
        \A i, j \in 1..Cardinality(rows) :
            i < j => s[i].start_time <= s[j].start_time}

\* the objects the session holds after the load, by pass_id
IdentityMap(all_passes) ==
    [id \in {all_passes[i].pass_id : i \in 1..Len(all_passes)} |->
        all_passes[CHOOSE i \in 1..Len(all_passes) : all_passes[i].pass_id = id]]

optimize_pass_without_duration(pass_schedule, conflicts, new_start_time) ==
    IF /\ conflicts # <<>>
       /\ new_start_time # NoSlot
       /\ new_start_time # pass_schedule.start_time
    THEN [pass_schedule EXCEPT !.start_time = new_start_time,
                               !.end_time = new_start_time]
    ELSE pass_schedule

\* if new_start_time and new_start_time != pass_schedule.start_time: the
\* object after the body of the for loop, given the conflicts detected on
\* its window and the slot found for it (NoSlot when none was searched)
optimize_pass(pass_schedule, conflicts, new_start_time) ==
    IF /\ conflicts # <<>>
       /\ new_start_time # NoSlot
       /\ new_start_time # pass_schedule.start_time
    THEN [pass_schedule EXCEPT
             !.start_time = new_start_time,
             !.end_time = new_start_time
                              + (pass_schedule.end_time - pass_schedule.start_time)]
    ELSE pass_schedule

\* db.commit(): one UPDATE by primary key for every object of the session
\* that differs from the row it was loaded from.  The flush raises when the
\* database fails, and when the row of such an object is no longer there.
DirtyObjects(all_passes, loaded) ==
    {all_passes[i] : i \in 1..Len(all_passes)} \ loaded

CommitRaises(all_passes, loaded, rows, fault) ==
    \/ fault = "commit"
    \/ \E o \in DirtyObjects(all_passes, loaded) :
         \A r \in rows : r.pass_id # o.pass_id

CommittedDirtyOnly(all_passes, loaded, rows) ==
    {r \in rows : \E o \in DirtyObjects(all_passes, loaded) : o.pass_id = r.pass_id}

Committed(all_passes, loaded, rows) ==
    {IF \E o \in DirtyObjects(all_passes, loaded) : o.pass_id = r.pass_id
     THEN CHOOSE o \in DirtyObjects(all_passes, loaded) : o.pass_id = r.pass_id
     ELSE r : r \in rows}

\* the two returns of optimize_schedule
OptimizationCompletedCountingAll(all_passes, rescheduled_passes) ==
    [total_passes |-> Len(all_passes),
     conflicts_resolved |-> 0,
     passes_rescheduled |-> Len(all_passes),
     optimization_status |-> "completed"]

OptimizationCompleted(all_passes, rescheduled_passes) ==
    [total_passes |-> Len(all_passes),
     conflicts_resolved |-> 0,
     passes_rescheduled |-> rescheduled_passes,
     optimization_status |-> "completed"]

OptimizationFailed == [error |-> "schedule_optimization_failed"]

(***************************************************************************)
(* get_schedule_statistics                                                 *)
(***************************************************************************)
\* tomorrow = now + timedelta(days=1)
MinutesPerDay == 1440

\* for status in ["scheduled", "active", "completed", "cancelled"]
StatusValues == <<"scheduled", "active", "completed", "cancelled">>

\* db.query(PassSchedule).filter(PassSchedule.status == status).count()
CountByStatus(rows, status) == Cardinality({r \in rows : r.status = status})

\* db.query(PassSchedule.ground_station).distinct().all()
DistinctStations(rows) == {r.ground_station : r \in rows}

\* db.query(PassSchedule).filter(PassSchedule.ground_station == station[0]).count()
CountByStation(rows, station) ==
    Cardinality({r \in rows : r.ground_station = station})

\* the passes with now <= start_time <= tomorrow
UpcomingPasses(rows, clock) ==
    Cardinality({r \in rows : /\ r.start_time >= clock
                              /\ r.start_time <= clock + MinutesPerDay})

\* the dictionary returned by the try block
Statistics(total_passes, status_counts, station_counts, upcoming_passes, clock) ==
    [total_passes |-> total_passes,
     passes_by_status |-> status_counts,
     passes_by_station |-> station_counts,
     upcoming_passes_24h |-> upcoming_passes,
     last_updated |-> clock]

\* except Exception as e: return {"error": ...}
get_schedule_statistics_except ==
    [raised |-> FALSE, value |-> [error |-> "failed_to_get_statistics"]]

\* a dictionary with one more key
Assign(dict, key, value) ==
    [k \in DOMAIN dict \cup {key} |-> IF k = key THEN value ELSE dict[k]]

(***************************************************************************)
(* generate_pass_schedules                                                 *)
(***************************************************************************)
\* calculate_satellite_passes: MIN_PASS_ELEVATION_DEGREES is the string
\* os.getenv returns, so the comparison of the float elevation with it
\* raises TypeError for every pass; when the elevation could not be computed
\* max_elevation is the string MAX_PASS_ELEVATION_DEGREES and round() raises.
\* Both are caught per pass, and no pass is kept.
calculate_satellite_passes == {}

\* The rows of passschedule after the call: all rows are deleted, the passes
\* calculated are inserted and the transaction is committed; without
\* pyorbital, and without satellites, the call returns an error before any
\* commit.
generate_pass_schedules(rows, satellite_rows, pyorbital_available) ==
    IF ~pyorbital_available \/ satellite_rows = {}
    THEN rows
    ELSE calculate_satellite_passes

(***************************************************************************)
(* The state: the passschedule and satellite tables, the clock, and the    *)
(* call being served with its result.                                      *)
(***************************************************************************)
PassSchedule(pass_id, satellite_norad_id, ground_station, start_time, end_time) ==
    [pass_id |-> pass_id,
     satellite_norad_id |-> satellite_norad_id,
     ground_station |-> ground_station,
     start_time |-> start_time,
     end_time |-> end_time,
     status |-> "scheduled"]

\* the rows a table can hold: generated passes have a positive duration
StoredWindows ==
    [satellite_norad_id : KnownSatellites, ground_station : Stations,
     start_time : StoredStarts, duration : StoredDurations]

\* the tables before the call
Tables ==
    /\ satellites = KnownSatellites
    /\ \E n \in 0..MaxPasses :
         \E w \in [1..n -> StoredWindows] :
            passes = {PassSchedule(i, w[i].satellite_norad_id, w[i].ground_station,
                                   w[i].start_time,
                                   w[i].start_time + w[i].duration) : i \in 1..n}

Pending == [done |-> FALSE]

\* no optimize_schedule call, no get_schedule_statistics call is running
Idle == [pc |-> "idle"]

(***************************************************************************)
(* A call of check_temporal_conflicts on a candidate window.               *)
(***************************************************************************)
DetectStarts == {0, 5, 10, 15, 20, 30, 40}
DetectDurations == {5, 10, 30}
DetectBuffers == {IntArg(0), IntArg(10), IntArg(15), DEFAULT_PASSES_PER_SATELLITE}

DetectRequests ==
    [op : {"detect"}, start_time : DetectStarts, duration : DetectDurations,
     ground_station : Stations, satellite_norad_id : KnownSatellites,
     buffer : DetectBuffers, fault : {"none", "pass_query"}]

InitDetect ==
    /\ Tables
    /\ now = 0
    /\ request \in DetectRequests
    /\ response = Pending
    /\ sweep = Idle
    /\ stats = Idle

Detect ==
    /\ request.op = "detect"
    /\ ~response.done
    /\ \E scan \in ScanOrders(passes) :
         LET outcome == check_temporal_conflicts_call(
                            request.start_time,
                            request.start_time + request.duration,
                            request.ground_station, request.satellite_norad_id,
                            Session(satellites, scan, request.fault),
                            request.buffer)
         IN  response' = [done |-> TRUE, raised |-> outcome.raised,
                          conflicts |-> outcome.value]
    /\ UNCHANGED <<passes, satellites, now, request, sweep, stats>>

SpecDetect == InitDetect /\ [][Detect]_vars

(***************************************************************************)
(* POST /pass-schedules/validate: a call of validate_schedule_creation.    *)
(***************************************************************************)
Clock == {0, 5}
ValidateStarts == {0, 5, 10, 15, 20, 30, 40}
ValidateDurations == {-5, 0, 10, 30}

ValidateRequests ==
    [op : {"validate"},
     satellite_norad_id : KnownSatellites \cup {UnknownSatellite},
     ground_station : Stations, start_time : ValidateStarts,
     duration : ValidateDurations, fault : Faults]

InitValidate ==
    /\ Tables
    /\ now \in Clock
    /\ request \in ValidateRequests
    /\ response = Pending
    /\ sweep = Idle
    /\ stats = Idle

Validate ==
    /\ request.op = "validate"
    /\ ~response.done
    /\ \E scan \in ScanOrders(passes) :
         LET outcome == validate_schedule_creation_call(
                            request.satellite_norad_id, request.ground_station,
                            request.start_time,
                            request.start_time + request.duration,
                            Session(satellites, scan, request.fault), now)
         IN  response' = IF outcome.raised
                         THEN [done |-> TRUE, raised |-> TRUE,
                               pass_queries |-> outcome.pass_queries]
                         ELSE [done |-> TRUE, raised |-> FALSE,
                               pass_queries |-> outcome.pass_queries,
                               is_valid |-> outcome.value.is_valid,
                               conflicts |-> outcome.value.conflicts]
    /\ UNCHANGED <<passes, satellites, now, request, sweep, stats>>

SpecValidate == InitValidate /\ [][Validate]_vars

(***************************************************************************)
(* A call of find_next_available_slot.                                     *)
(***************************************************************************)
SlotStarts == {0, 10, 30}
SlotDurations == {10, 30}

FindSlotRequests ==
    [op : {"find_slot"}, requested_start : SlotStarts,
     requested_duration_minutes : SlotDurations, ground_station : Stations,
     satellite_norad_id : KnownSatellites, search_hours_ahead : 1..MaxHours,
     max_search_iterations : 1..MaxSteps, fault : {"none", "pass_query"}]

InitFindSlot ==
    /\ Tables
    /\ now = 0
    /\ request \in FindSlotRequests
    /\ response = Pending
    /\ sweep = Idle
    /\ stats = Idle

FindSlot ==
    /\ request.op = "find_slot"
    /\ ~response.done
    /\ \E scan \in ScanOrders(passes) :
         LET result == find_next_available_slot(
                           request.requested_start,
                           request.requested_duration_minutes,
                           request.ground_station, request.satellite_norad_id,
                           Session(satellites, scan, request.fault),
                           request.search_hours_ahead,
                           request.max_search_iterations)
         IN  response' = [done |-> TRUE, slot |-> result.slot,
                          examined |-> result.examined]
    /\ UNCHANGED <<passes, satellites, now, request, sweep, stats>>

SpecFindSlot == InitFindSlot /\ [][FindSlot]_vars

(***************************************************************************)
(* POST /schedule/optimize, once or twice in a row, a step at a time: the  *)
(* load, the body of the loop for each object, the commit.  sweep holds    *)
(* the locals of the running call; loaded (the rows as they were loaded)   *)
(* and slot_searches (the calls of find_next_available_slot) are kept for  *)
(* the properties.                                                         *)
(***************************************************************************)
OptimizeFaults == {"none", "load_query", "pass_query", "commit"}

\* a single call, and two calls in a row
OptimizeRuns == {1, 2}

OptimizeRequests ==
    [op : {"optimize"}, runs : OptimizeRuns, fault : OptimizeFaults]

\* The tables before an optimize request.  The sweep depends on the windows
\* through their stations, their overlap and the distance of their starts:
\* rows of one duration at both stations and both starts give every case.
SweepDurations == {30}

SweepTables ==
    /\ Tables
    /\ \A r \in passes : r.end_time - r.start_time \in SweepDurations

InitOptimize ==
    /\ SweepTables
    /\ now = 0
    /\ request \in OptimizeRequests
    /\ response = [done |-> FALSE, reports |-> <<>>]
    /\ sweep = Idle
    /\ stats = Idle

\* the call returns: the report goes to the caller
Returned(report) ==
    [done |-> Len(response.reports) + 1 = request.runs,
     reports |-> Append(response.reports, report)]

OptimizeLoad ==
    /\ request.op = "optimize"
    /\ ~response.done
    /\ sweep.pc \in {"idle", "done"}
    /\ IF request.fault = "load_query"
       THEN /\ sweep' = [pc |-> "done", all_passes |-> <<>>, index |-> 1,
                         rescheduled_passes |-> 0, loaded |-> passes,
                         slot_searches |-> 0]
            /\ response' = Returned(OptimizationFailed)
       ELSE /\ \E all_passes \in LoadOrders(passes) :
                 sweep' = [pc |-> "loop", all_passes |-> all_passes,
                           index |-> 1, rescheduled_passes |-> 0,
                           loaded |-> passes, slot_searches |-> 0]
            /\ UNCHANGED response
    /\ UNCHANGED <<passes, satellites, now, request, stats>>

\* one pass of the for loop: the detection on the object's own window, the
\* slot search if it reports conflicts, the change of the object
OptimizeStep ==
    /\ sweep.pc = "loop"
    /\ sweep.index <= Len(sweep.all_passes)
    /\ \E scan \in ScanOrders(passes) :
         LET db == SessionHolding(satellites, scan, request.fault,
                                  IdentityMap(sweep.all_passes))
             pass_schedule == sweep.all_passes[sweep.index]
         IN  \E conflicts \in {check_temporal_conflicts(
                                   pass_schedule.start_time,
                                   pass_schedule.end_time,
                                   pass_schedule.ground_station,
                                   pass_schedule.satellite_norad_id, db,
                                   IntArg(DefaultConflictWindow))} :
             \E new_start_time \in
                    {IF conflicts = <<>>
                     THEN NoSlot
                     ELSE find_next_available_slot(
                              pass_schedule.start_time,
                              pass_schedule.end_time - pass_schedule.start_time,
                              pass_schedule.ground_station,
                              pass_schedule.satellite_norad_id, db,
                              DefaultSearchHours, DefaultMaxIterations).slot} :
             \E moved \in {optimize_pass(pass_schedule, conflicts,
                                         new_start_time)} :
                sweep' = [sweep EXCEPT
                             !.all_passes[sweep.index] = moved,
                             !.index = @ + 1,
                             !.rescheduled_passes =
                                 IF moved # pass_schedule THEN @ + 1 ELSE @,
                             !.slot_searches =
                                 IF conflicts # <<>> THEN @ + 1 ELSE @]
    /\ UNCHANGED <<passes, satellites, now, request, response, stats>>

OptimizeCommit ==
    /\ sweep.pc = "loop"
    /\ sweep.index > Len(sweep.all_passes)
    /\ IF CommitRaises(sweep.all_passes, sweep.loaded, passes, request.fault)
       THEN /\ response' = Returned(OptimizationFailed)
            /\ UNCHANGED passes
       ELSE /\ passes' = Committed(sweep.all_passes, sweep.loaded, passes)
            /\ response' = Returned(OptimizationCompleted(
                                        sweep.all_passes,
                                        sweep.rescheduled_passes))
    /\ sweep' = [sweep EXCEPT !.pc = "done"]
    /\ UNCHANGED <<satellites, now, request, stats>>

SpecOptimize ==
    InitOptimize /\ [][OptimizeLoad \/ OptimizeStep \/ OptimizeCommit]_vars

(***************************************************************************)
(* POST /pass-schedules/generate, served for another client while an       *)
(* optimize request or a statistics request is being served.               *)
(***************************************************************************)
Generate ==
    /\ request.op \in {"optimize", "statistics"}
    /\ \E pyorbital_available \in BOOLEAN :
         passes' = generate_pass_schedules(passes, satellites,
                                           pyorbital_available)
    /\ UNCHANGED <<satellites, now, request, response, sweep, stats>>

SpecSweep ==
    InitOptimize
        /\ [][OptimizeLoad \/ OptimizeStep \/ OptimizeCommit \/ Generate]_vars

(***************************************************************************)
(* GET /schedule/statistics, a query at a time, with generate requests of  *)
(* other clients served in between.  stats holds the locals of the running *)
(* call; the fault of the request names the query that fails.              *)
(***************************************************************************)
StatisticsFaults ==
    {"none", "total", "status", "stations", "station_counts", "upcoming"}

StatisticsRequests == [op : {"statistics"}, fault : StatisticsFaults]

InitStatistics ==
    /\ Tables
    /\ now \in Clock
    /\ request \in StatisticsRequests
    /\ response = Pending
    /\ sweep = Idle
    /\ stats = Idle

\* the handler of the call returns its dictionary to the endpoint
StatisticsFailed ==
    /\ response' = [done |-> TRUE,
                    raised |-> get_schedule_statistics_except.raised,
                    value |-> get_schedule_statistics_except.value]
    /\ stats' = [stats EXCEPT !.pc = "done"]

\* total_passes = db.query(PassSchedule).count()
StatisticsTotal ==
    /\ request.op = "statistics"
    /\ ~response.done
    /\ stats.pc = "idle"
    /\ IF request.fault = "total"
       THEN /\ response' = [done |-> TRUE,
                            raised |-> get_schedule_statistics_except.raised,
                            value |-> get_schedule_statistics_except.value]
            /\ stats' = [pc |-> "done"]
       ELSE /\ stats' = [pc |-> "status",
                         total_passes |-> Cardinality(passes),
                         status_counts |-> <<>>,
                         stations |-> {},
                         station_counts |-> <<>>]
            /\ UNCHANGED response
    /\ UNCHANGED <<passes, satellites, now, request, sweep>>

\* one pass of the loop over the four statuses
StatisticsStatus ==
    /\ stats.pc = "status"
    /\ IF request.fault = "status"
       THEN StatisticsFailed
       ELSE LET status == StatusValues[Cardinality(DOMAIN stats.status_counts) + 1]
                counted == Assign(stats.status_counts, status,
                                  CountByStatus(passes, status))
            IN  /\ stats' = [stats EXCEPT
                                 !.status_counts = counted,
                                 !.pc = IF Cardinality(DOMAIN counted)
                                             = Len(StatusValues)
                                        THEN "stations" ELSE "status"]
                /\ UNCHANGED response
    /\ UNCHANGED <<passes, satellites, now, request, sweep>>

\* stations = db.query(PassSchedule.ground_station).distinct().all()
StatisticsStations ==
    /\ stats.pc = "stations"
    /\ IF request.fault = "stations"
       THEN StatisticsFailed
       ELSE /\ stats' = [stats EXCEPT !.stations = DistinctStations(passes),
                                      !.pc = "station_counts"]
            /\ UNCHANGED response
    /\ UNCHANGED <<passes, satellites, now, request, sweep>>

\* one pass of the loop over the stations, in the order of the query
StatisticsStationCount ==
    /\ stats.pc = "station_counts"
    /\ stats.stations # {}
    /\ IF request.fault = "station_counts"
       THEN StatisticsFailed
       ELSE /\ \E station \in stats.stations :
                 stats' = [stats EXCEPT
                              !.stations = @ \ {station},
                              !.station_counts =
                                  Assign(@, station,
                                         CountByStation(passes, station))]
            /\ UNCHANGED response
    /\ UNCHANGED <<passes, satellites, now, request, sweep>>

\* the count of the upcoming passes, and the return
StatisticsUpcoming ==
    /\ stats.pc = "station_counts"
    /\ stats.stations = {}
    /\ IF request.fault = "upcoming"
       THEN StatisticsFailed
       ELSE /\ response' = [done |-> TRUE, raised |-> FALSE,
                            value |-> Statistics(stats.total_passes,
                                                 stats.status_counts,
                                                 stats.station_counts,
                                                 UpcomingPasses(passes, now),
                                                 now)]
            /\ stats' = [stats EXCEPT !.pc = "done"]
    /\ UNCHANGED <<passes, satellites, now, request, sweep>>

SpecStatistics ==
    InitStatistics
        /\ [][\/ StatisticsTotal \/ StatisticsStatus \/ StatisticsStations
              \/ StatisticsStationCount \/ StatisticsUpcoming
              \/ Generate]_vars

(***************************************************************************)
(* Validations and detections.                                             *)
(***************************************************************************)
SpecDetectValidate ==
    (InitDetect \/ InitValidate) /\ [][Detect \/ Validate]_vars

(***************************************************************************)
(* All the calls.                                                          *)
(***************************************************************************)
Init ==
    \/ InitDetect \/ InitValidate \/ InitFindSlot \/ InitOptimize
    \/ InitStatistics

Next ==
    \/ Detect \/ Validate \/ FindSlot
    \/ OptimizeLoad \/ OptimizeStep \/ OptimizeCommit \/ Generate
    \/ StatisticsTotal \/ StatisticsStatus \/ StatisticsStations
    \/ StatisticsStationCount \/ StatisticsUpcoming

Spec == Init /\ [][Next]_vars

(***************************************************************************)
(* Properties.                                                             *)
(***************************************************************************)
\* half-open intervals [s1, e1) and [s2, e2) overlap
Overlap(s1, e1, s2, e2) == s1 < e2 /\ s2 < e1

CountWhere(conflicts, Test(_)) == Len(SelectSeq(conflicts, Test))

IsHigh(c) == c.severity = "high"

\* the conflicts of a kind and severity that reference a stored row
Reports(conflicts, conflict_type, severity, pass_id) ==
    CountWhere(conflicts,
               LAMBDA c : /\ c.conflict_type = conflict_type
                          /\ c.severity = severity
                          /\ c.conflicting_pass_id = pass_id)

ValidateDone == request.op = "validate" /\ response.done
DetectDone == request.op = "detect" /\ response.done
FindSlotDone == request.op = "find_slot" /\ response.done

RequestEnd == request.start_time + request.duration

\* known satellite, start < end, start in the future
WellFormed ==
    /\ request.satellite_norad_id \in satellites
    /\ request.start_time < RequestEnd
    /\ request.start_time > now

OverlapsRequest(r) ==
    Overlap(r.start_time, r.end_time, request.start_time, RequestEnd)

\* C1: validate returns valid=true exactly when the conflict list it returns
\* holds no conflict of severity high; medium conflicts alone leave it valid.
C1_ValidIffNoHighConflict ==
    ValidateDone =>
        (response.is_valid <=> CountWhere(response.conflicts, IsHigh) = 0)

C1_ValidWithMediumConflict ==
    /\ ValidateDone
    /\ response.is_valid
    /\ \E i \in 1..Len(response.conflicts) :
         response.conflicts[i].severity = "medium"

\* C2: a well-formed candidate that overlaps stored rows at its own station
\* is invalid, and each such row is referenced by exactly one high
\* ground_station_conflict (one in all when it is the only stored row).  The
\* queries of the call succeed.
C2_OverlapAtStationRejected ==
    (ValidateDone /\ WellFormed /\ request.fault = "none") =>
        \A r \in passes :
            (r.ground_station = request.ground_station /\ OverlapsRequest(r)) =>
                /\ ~response.is_valid
                /\ Reports(response.conflicts, GROUND_STATION_CONFLICT, "high",
                           r.pass_id) = 1
                /\ passes = {r} =>
                       CountWhere(response.conflicts,
                                  LAMBDA c : c.conflict_type
                                                 = GROUND_STATION_CONFLICT) = 1

C2_TwoOverlapsAtStation ==
    /\ ValidateDone /\ WellFormed /\ request.fault = "none"
    /\ Cardinality(passes) = 2
    /\ \A r \in passes :
         r.ground_station = request.ground_station /\ OverlapsRequest(r)
    /\ \E r \in passes : r.start_time + 5 = request.start_time

\* C3: a stored row at the candidate's station that ends exactly when the
\* candidate starts, or starts exactly when it ends, gets no
\* ground_station_conflict from a validation (detection with the default
\* buffer) and so does not make the candidate invalid.
C3_TouchingIsNoConflict ==
    (ValidateDone /\ WellFormed /\ request.fault = "none") =>
        \A r \in passes :
            (/\ r.ground_station = request.ground_station
             /\ (r.end_time = request.start_time \/ r.start_time = RequestEnd)) =>
                Reports(response.conflicts, GROUND_STATION_CONFLICT, "high",
                        r.pass_id) = 0

\* C4: every high conflict that references a stored row references a row of
\* the candidate's own station, and a well-formed candidate is valid with no
\* high conflict when every stored row is at another station, also when a
\* row overlaps it for the same satellite.  The queries of the call succeed.
C4_OtherStationNeverHigh ==
    ValidateDone =>
        /\ \A i \in 1..Len(response.conflicts) :
             (/\ response.conflicts[i].severity = "high"
              /\ response.conflicts[i].conflicting_pass_id # NoPassId) =>
                 \E r \in passes :
                     /\ r.pass_id = response.conflicts[i].conflicting_pass_id
                     /\ r.ground_station = request.ground_station
        /\ (/\ WellFormed
            /\ request.fault = "none"
            /\ \A r \in passes : r.ground_station # request.ground_station) =>
               /\ response.is_valid
               /\ CountWhere(response.conflicts, IsHigh) = 0

C4_OverlapAtOtherStation ==
    /\ ValidateDone /\ WellFormed /\ request.fault = "none"
    /\ response.is_valid
    /\ \A r \in passes : r.ground_station # request.ground_station
    /\ \E r \in passes :
         /\ OverlapsRequest(r)
         /\ r.satellite_norad_id = request.satellite_norad_id

\* C5: detection with buffer B reports a medium minimum_separation_violation
\* for a stored row exactly when the row starts less than B minutes from the
\* candidate's start, whatever the stations and whether or not the windows
\* overlap.  The buffer is a number and the query succeeds.
C5_SeparationIffWithinBuffer ==
    (DetectDone /\ request.buffer.type = "int" /\ request.fault = "none") =>
        \A r \in passes :
            Reports(response.conflicts, MINIMUM_SEPARATION_VIOLATION, "medium",
                    r.pass_id)
              = IF Abs(r.start_time - request.start_time) < request.buffer.val
                THEN 1 ELSE 0

C5_SeparationWithoutOverlap ==
    /\ DetectDone /\ request.buffer.type = "int" /\ request.fault = "none"
    /\ \E r \in passes :
         /\ ~OverlapsRequest(r)
         /\ r.ground_station # request.ground_station
         /\ Reports(response.conflicts, MINIMUM_SEPARATION_VIOLATION, "medium",
                    r.pass_id) = 1

\* C6: with B the only stored row and A the candidate, detection finds B in
\* its overlap query, and reports it as a ground_station_conflict, exactly
\* when detection of B as the candidate against a table holding only A finds
\* and reports A.
CandidateRow ==
    PassSchedule(MaxPasses + 1, request.satellite_norad_id,
                 request.ground_station, request.start_time, RequestEnd)

C6_DetectionIsSymmetric ==
    (/\ DetectDone /\ request.buffer.type = "int" /\ request.fault = "none"
     /\ Cardinality(passes) = 1) =>
        LET B == CHOOSE r \in passes : TRUE
            A == CandidateRow
            swapped == Session(satellites, <<A>>, "none")
            reverse == check_temporal_conflicts(
                           B.start_time, B.end_time, B.ground_station,
                           B.satellite_norad_id, swapped, request.buffer)
        IN  /\ (Reports(response.conflicts, GROUND_STATION_CONFLICT, "high",
                        B.pass_id) = 1)
               <=> (Reports(reverse, GROUND_STATION_CONFLICT, "high",
                            A.pass_id) = 1)
            /\ (Len(overlapping_passes(A.start_time, A.end_time,
                                       request.buffer.val,
                                       Session(satellites, <<B>>, "none"))) = 1)
               <=> (Len(overlapping_passes(B.start_time, B.end_time,
                                           request.buffer.val, swapped)) = 1)
            /\ Len(response.conflicts) = Len(reverse)

C6_ReportedBothWays ==
    /\ DetectDone /\ request.buffer.type = "int" /\ request.fault = "none"
    /\ request.buffer.val > 0
    /\ \E r \in passes :
         /\ passes = {r}
         /\ r.ground_station = request.ground_station
         /\ r.end_time = request.start_time - request.buffer.val + 5
         /\ Reports(response.conflicts, GROUND_STATION_CONFLICT, "high",
                    r.pass_id) = 1

\* the detector as validation runs it on the window [t, t + duration) of a
\* slot request: default buffer, working database
DetectorAt(t) ==
    check_temporal_conflicts(
        t, t + request.requested_duration_minutes, request.ground_station,
        request.satellite_norad_id,
        Session(satellites, CHOOSE scan \in ScanOrders(passes) : TRUE, "none"),
        IntArg(DefaultConflictWindow))

CleanAt(t) == CountWhere(DetectorAt(t), IsHigh) = 0

SearchEnd ==
    request.requested_start + request.search_hours_ahead * MinutesPerHour

\* the times desired_start + 30 k the step budget and the horizon allow
SlotTimes ==
    {t \in {request.requested_start + SlotStepMinutes * k :
                k \in 0..(request.max_search_iterations - 1)} : t < SearchEnd}

\* the first of them with no high-severity conflict, none when there is none
FirstCleanSlot ==
    IF \E t \in SlotTimes : CleanAt(t)
    THEN CHOOSE t \in SlotTimes :
             CleanAt(t) /\ \A u \in SlotTimes : CleanAt(u) => t <= u
    ELSE NoSlot

\* C7: a time returned by the slot search has no high-severity conflict when
\* the detector is run on the window placed there.
C7_ReturnedSlotIsClean ==
    (FindSlotDone /\ request.fault = "none" /\ response.slot # NoSlot) =>
        CleanAt(response.slot)

\* C7: the case of the claim, a search that returned a time
C7_SlotReturned == FindSlotDone /\ response.slot # NoSlot

\* C8: the slot search returns the first time of desired_start,
\* desired_start + 30, ... within the horizon and the step budget at which
\* the detector reports no high-severity conflict (desired_start itself when
\* it is clean), none when there is no such time.
C8_ReturnsFirstCleanSlot ==
    (FindSlotDone /\ request.fault = "none") => response.slot = FirstCleanSlot

\* C9: the desired start and the next 30-minute block are taken at the
\* requested station and nothing else is stored; with max_steps = 2 the
\* search returns desired_start + 60, with max_steps = 1 it returns none.
TwoBlocksTaken ==
    /\ Cardinality(passes) = 2
    /\ \E r1, r2 \in passes :
         /\ r1.ground_station = request.ground_station
         /\ r2.ground_station = request.ground_station
         /\ r1.start_time = request.requested_start
         /\ r1.end_time = r1.start_time + SlotStepMinutes
         /\ r2.start_time = r1.end_time
         /\ r2.end_time = r2.start_time + SlotStepMinutes

C9_ThirdBlockWithTwoSteps ==
    (/\ FindSlotDone /\ request.fault = "none" /\ TwoBlocksTaken
     /\ request.requested_start + 2 * SlotStepMinutes < SearchEnd) =>
        /\ request.max_search_iterations = 2 =>
               response.slot = request.requested_start + 2 * SlotStepMinutes
        /\ request.max_search_iterations = 1 => response.slot = NoSlot

\* C10: a slot search ends having run the detector at most max_steps times,
\* on no time at or past desired_start + horizon, and a time it returns is
\* desired_start + 30 k for some 0 <= k < max_steps, before the horizon.
C10_SearchIsBounded ==
    FindSlotDone =>
        /\ Len(response.examined) <= request.max_search_iterations
        /\ \A i \in 1..Len(response.examined) :
             /\ response.examined[i] < SearchEnd
             /\ response.examined[i]
                  = request.requested_start + SlotStepMinutes * (i - 1)
        /\ response.slot # NoSlot =>
               /\ response.slot < SearchEnd
               /\ \E k \in 0..(request.max_search_iterations - 1) :
                    response.slot = request.requested_start + SlotStepMinutes * k

\* C10: a search that used up a step budget of two or more before the horizon
C10_BudgetUsedUp ==
    /\ FindSlotDone
    /\ request.max_search_iterations >= 2
    /\ Len(response.examined) = request.max_search_iterations
    /\ request.requested_start
         + SlotStepMinutes * request.max_search_iterations < SearchEnd

\* the validation returned exactly one conflict, of this kind and high
SingleHighConflict(conflict_type) ==
    /\ ~response.raised
    /\ ~response.is_valid
    /\ Len(response.conflicts) = 1
    /\ response.conflicts[1].severity = "high"
    /\ response.conflicts[1].conflict_type = conflict_type

SatelliteFoundMissing ==
    request.fault # "satellite_query" /\ request.satellite_norad_id \notin satellites

\* C17 as stated: every candidate with start = end is rejected with a high
\* temporal_overlap conflict before any query of the stored passes.
C17_EqualWindowIsTemporalOverlap ==
    (ValidateDone /\ request.duration = 0) =>
        SingleHighConflict(TEMPORAL_OVERLAP) /\ response.pass_queries = 0

\* C17 amended: every candidate with start = end is rejected, with exactly
\* one high conflict and before any query of the stored passes; the conflict
\* is a satellite_access_conflict when the satellite lookup finds no
\* satellite, and a temporal_overlap in every other case.
C17_EqualWindowRejectedBeforeQuery ==
    (ValidateDone /\ request.duration = 0) =>
        /\ SingleHighConflict(IF SatelliteFoundMissing
                              THEN SATELLITE_ACCESS_CONFLICT
                              ELSE TEMPORAL_OVERLAP)
        /\ response.pass_queries = 0

C17_EqualWindowInsideStoredPass ==
    /\ ValidateDone /\ request.duration = 0 /\ request.fault = "none"
    /\ request.satellite_norad_id \in satellites
    /\ request.start_time > now
    /\ \E r \in passes :
         /\ r.ground_station = request.ground_station
         /\ r.start_time < request.start_time
         /\ request.start_time < r.end_time
    /\ SingleHighConflict(TEMPORAL_OVERLAP)

\* C18: a candidate with start >= end, or with start not later than the
\* clock (start = now included), or whose satellite does not exist, is
\* rejected with exactly one high conflict and no query of the stored
\* passes; a candidate failing none of the three, once its satellite has
\* been looked up, goes to conflict detection, which queries the stored
\* passes.
C18_EarlyRejections ==
    ValidateDone =>
        /\ ~WellFormed =>
               /\ ~response.raised
               /\ ~response.is_valid
               /\ CountWhere(response.conflicts, IsHigh) = 1
               /\ Len(response.conflicts) = 1
               /\ response.pass_queries = 0
        /\ (WellFormed /\ request.fault # "satellite_query") =>
               response.pass_queries = 1

C18_StartAtClockRejected ==
    /\ ValidateDone /\ request.fault = "none"
    /\ request.satellite_norad_id \in satellites
    /\ request.duration > 0
    /\ request.start_time = now
    /\ passes # {}
    /\ ~response.is_valid
    /\ response.pass_queries = 0

\* C19: validation and detection never raise, whatever the input and
\* whether or not the queries fail, and a validation of a candidate with a
\* malformed window, a start that is not in the future, an unknown satellite
\* or an overlap at its station returns valid=false with at least one
\* conflict.
C19_NeverRaises ==
    /\ DetectDone => ~response.raised
    /\ ValidateDone =>
           /\ ~response.raised
           /\ (\/ ~WellFormed
               \/ \E r \in passes : /\ r.ground_station = request.ground_station
                                    /\ OverlapsRequest(r)) =>
                  /\ ~response.is_valid
                  /\ Len(response.conflicts) >= 1

C19_DetectionQueryFailed ==
    /\ DetectDone /\ request.fault = "pass_query"
    /\ request.buffer.type = "int"
    /\ passes # {}
    /\ ~response.raised
    /\ Len(response.conflicts) = 1

\* C20: a validation during which a query of the database fails does not
\* report the failure as a temporal_overlap conflict.
C20_FailureIsNotTemporalOverlap ==
    (ValidateDone /\ request.fault = "satellite_query") =>
        \A i \in 1..Len(response.conflicts) :
            response.conflicts[i].conflict_type # TEMPORAL_OVERLAP

\* an optimize_schedule call has returned; its report is the last one
OptimizeReturned == request.op = "optimize" /\ sweep.pc = "done"

LastReport == response.reports[Len(response.reports)]

Completed(report) == "optimization_status" \in DOMAIN report

\* the row an object of the sweep was loaded from
LoadedRow(pass_schedule) ==
    CHOOSE r \in sweep.loaded : r.pass_id = pass_schedule.pass_id

ConflictFree(rows) ==
    \A r1, r2 \in rows :
        r1 # r2 => ~InWindow(r2, r1.start_time - DefaultConflictWindow,
                             r1.end_time + DefaultConflictWindow)

\* C12: an optimize call over stored passes none of which conflicts with
\* another one never calls the slot search, changes no window and reports
\* zero rescheduled passes.
C12_ConflictFreeSweepIsNoOp ==
    (OptimizeReturned /\ request.fault = "none" /\ ConflictFree(sweep.loaded)) =>
        /\ sweep.slot_searches = 0
        /\ passes = sweep.loaded
        /\ LastReport.passes_rescheduled = 0

\* C13: the optimize call processes the passes by ascending start time, and
\* passes with equal start time by ascending pass_id.
C13_ProcessedByStartThenId ==
    (request.op = "optimize" /\ sweep.pc \in {"loop", "done"}) =>
        \A i, j \in 1..Len(sweep.all_passes) :
            i < j =>
                LET a == LoadedRow(sweep.all_passes[i])
                    b == LoadedRow(sweep.all_passes[j])
                IN  \/ a.start_time < b.start_time
                    \/ a.start_time = b.start_time /\ a.pass_id < b.pass_id

\* C15: between the load of an optimize call and its commit the stored
\* passes are the ones it loaded: no other request changes them.
C15_SweepIsExclusive ==
    (request.op = "optimize" /\ sweep.pc = "loop") => passes = sweep.loaded

\* a query or the commit of the optimize call failed
RepositoryFailed ==
    \/ request.fault \in {"load_query", "commit"}
    \/ request.fault = "pass_query" /\ sweep.loaded # {}

\* C16: an optimize call during which a query or the commit failed leaves
\* the stored passes as they were and returns a failure report, not a
\* completed one.
C16_FailedSweepReportsFailure ==
    (OptimizeReturned /\ RepositoryFailed) =>
        /\ passes = sweep.loaded
        /\ ~Completed(LastReport)

\* the stored row a conflict references
ReferencedRow(c) == CHOOSE r \in passes : r.pass_id = c.conflicting_pass_id

\* C26: the conflicts a detection returns come by ascending start time of
\* the stored rows they reference.  The buffer is a number and the query
\* succeeds.
C26_ConflictsByStartTime ==
    (DetectDone /\ request.buffer.type = "int" /\ request.fault = "none") =>
        \A i, j \in 1..Len(response.conflicts) :
            i < j => ReferencedRow(response.conflicts[i]).start_time
                         <= ReferencedRow(response.conflicts[j]).start_time

\* the objects of the sweep whose window is not the one they were loaded with
Changed ==
    {i \in 1..Len(sweep.all_passes) :
        sweep.all_passes[i] # LoadedRow(sweep.all_passes[i])}

\* what the slot search can return to the loop, and a conflict list
RelocationTimes == {NoSlot, 0, 30, 60}

SomeConflicts ==
    <<ScheduleConflict(GROUND_STATION_CONFLICT, "station_already_scheduled", 1,
                       "high")>>

\* C22: every stored pass has start < end, in every state of optimize calls
\* and generations, and moving a stored pass to a slot gives start < end.
C22_StoredWindowsPositive ==
    /\ \A r \in passes : r.start_time < r.end_time
    /\ \A r \in passes : \A t \in RelocationTimes \ {NoSlot} :
         LET moved == optimize_pass(r, SomeConflicts, t)
         IN  moved.start_time < moved.end_time

C22_PassSearchedAndKept ==
    /\ request.op = "optimize" /\ sweep.pc = "loop"
    /\ sweep.index > 1
    /\ sweep.slot_searches >= 1
    /\ passes # {}

\* C24: the body of the loop changes the window of a pass exactly when the
\* pass has conflicts and the slot search returned a time that is not its
\* start; a completed report counts as rescheduled the passes whose window
\* was changed and as total the passes loaded.
C24_RescheduledIffSlotFound ==
    /\ (OptimizeReturned /\ Completed(LastReport)) =>
           /\ LastReport.passes_rescheduled = Cardinality(Changed)
           /\ LastReport.total_passes = Cardinality(sweep.loaded)
    /\ request.op = "optimize" =>
           \A r \in passes : \A t \in RelocationTimes :
           \A conflicts \in {<<>>, SomeConflicts} :
               (optimize_pass(r, conflicts, t) # r)
                   <=> (conflicts # <<>> /\ t # NoSlot /\ t # r.start_time)

C24_SingleRunOverTwoPasses ==
    /\ OptimizeReturned /\ Completed(LastReport)
    /\ request.runs = 1
    /\ LastReport.total_passes = 2
    /\ LastReport.passes_rescheduled = 0
    /\ sweep.slot_searches = 2

\* C25: a completed report holds, besides the total, the rescheduled count
\* and the status, the number of passes that had conflicts and for which no
\* slot was found.
C25_UnresolvedCountReported ==
    (OptimizeReturned /\ Completed(LastReport)) =>
        \E f \in DOMAIN LastReport
                   \ {"total_passes", "passes_rescheduled", "optimization_status"} :
            LastReport[f] = sweep.slot_searches - sweep.rescheduled_passes

\* C28: an optimize call neither inserts nor deletes a pass, and leaves the
\* satellite, the station, the status and the duration of every pass as they
\* were, with a start that is not earlier; moving a pass to a slot changes
\* its window only and keeps its duration.
C28_OnlyWindowsChange ==
    /\ OptimizeReturned =>
           /\ {r.pass_id : r \in passes} = {r.pass_id : r \in sweep.loaded}
           /\ \A r \in passes :
                LET o == LoadedRow(r)
                IN  /\ r.satellite_norad_id = o.satellite_norad_id
                    /\ r.ground_station = o.ground_station
                    /\ r.status = o.status
                    /\ r.end_time - r.start_time = o.end_time - o.start_time
                    /\ r.start_time >= o.start_time
    /\ request.op = "optimize" =>
           \A r \in passes : \A t \in RelocationTimes \ {NoSlot} :
               LET moved == optimize_pass(r, SomeConflicts, t)
               IN  /\ [moved EXCEPT !.start_time = r.start_time,
                                    !.end_time = r.end_time] = r
                   /\ moved.end_time - moved.start_time
                          = r.end_time - r.start_time

C28_CommittedAtTwoStations ==
    /\ OptimizeReturned /\ Completed(LastReport)
    /\ Cardinality(passes) = 2
    /\ \E r1, r2 \in passes : r1.ground_station # r2.ground_station

StatisticsDone == request.op = "statistics" /\ response.done

\* the sum of the counts of a dictionary
RECURSIVE SumOver(_, _)
SumOver(dict, keys) ==
    IF keys = {}
    THEN 0
    ELSE LET k == CHOOSE key \in keys : TRUE
         IN  dict[k] + SumOver(dict, keys \ {k})

\* C23: a statistics call whose first query fails raises to its caller.
C23_ReadErrorPropagates ==
    (StatisticsDone /\ request.fault = "total") => response.raised

\* C29: in the statistics returned the counts by station sum to
\* total_passes, the counts by status sum to at most total_passes and
\* upcoming_passes_24h is at most total_passes, also when other requests
\* change the table during the call.
C29_StatisticsAreOneSnapshot ==
    (StatisticsDone /\ "total_passes" \in DOMAIN response.value) =>
        LET statistics == response.value
        IN  /\ SumOver(statistics.passes_by_station,
                       DOMAIN statistics.passes_by_station)
                   = statistics.total_passes
            /\ SumOver(statistics.passes_by_status,
                       DOMAIN statistics.passes_by_status)
                   <= statistics.total_passes
            /\ statistics.upcoming_passes_24h <= statistics.total_passes

====
